---- MODULE Spec2Model ----
(***************************************************************************)
(* TimeService of backend/services/time_service.py: the trading-day        *)
(* calendar, the forward conversion get_accurate_time (time step ->        *)
(* "YYYY-MM-DD HH:MM"), the inverse conversion get_time_step, and the      *)
(* bounded result cache.                                                   *)
(*                                                                         *)
(* A date is a record [year, month, day]; a datetime adds hour and minute. *)
(* A Python str is a sequence of one-character strings, so strftime,       *)
(* str.split and strptime are computed character by character.             *)
(***************************************************************************)
EXTENDS Integers, Sequences, FiniteSets, TLC

(***************************************************************************)
(* Bounds of the model.                                                    *)
(*   HorizonDays: the number of calendar days the calendar loop visits,    *)
(*     starting at base_date (the code runs to 2020-12-31).                *)
(*   CacheCap: the largest number of cache entries (the code's literal is  *)
(*     10000; the model scales it so that a full cache is reachable).      *)
(*   NumThreads: the number of threads that call the service at once.      *)
(***************************************************************************)
HorizonDays == 5

CacheCap == 3

NumThreads == 2

\* china_holidays, trading_days and result_cache are the fields of the service.
\* last records the last call: its operation, argument and what it returned.
\* pre_cache is a history variable: the cache as the last call found it.
\* threads holds, for every thread that runs get_accurate_time statement by
\* statement, where it is (pc), its argument and its local result.
\* db is the DatabaseManager and its server: the state of self.connection and
\* whether the server can be reached.
VARIABLES china_holidays, trading_days, result_cache, last, pre_cache, threads, db

vars == <<china_holidays, trading_days, result_cache, last, pre_cache, threads, db>>

(***************************************************************************)
(* datetime                                                                *)
(***************************************************************************)
steps_per_day == 50

Date(y, m, d) == [year |-> y, month |-> m, day |-> d]

IsLeap(y) == (y % 4 = 0) /\ ((y % 100 # 0) \/ (y % 400 = 0))

DaysInMonth(y, m) ==
  IF m = 2 THEN (IF IsLeap(y) THEN 29 ELSE 28)
  ELSE IF m \in {4, 6, 9, 11} THEN 30 ELSE 31

DaysBeforeYear(y) ==
  (y - 1) * 365 + ((y - 1) \div 4) - ((y - 1) \div 100) + ((y - 1) \div 400)

RECURSIVE DaysBeforeMonth(_, _)
DaysBeforeMonth(y, m) ==
  IF m = 1 THEN 0 ELSE DaysBeforeMonth(y, m - 1) + DaysInMonth(y, m - 1)

\* date.toordinal()
ToOrdinal(d) == DaysBeforeYear(d.year) + DaysBeforeMonth(d.year, d.month) + d.day

\* date.weekday(): Monday = 0 .. Sunday = 6
Weekday(d) == (ToOrdinal(d) + 6) % 7

\* date + timedelta(days=1)
NextDay(d) ==
  IF d.day < DaysInMonth(d.year, d.month) THEN Date(d.year, d.month, d.day + 1)
  ELSE IF d.month < 12 THEN Date(d.year, d.month + 1, 1)
  ELSE Date(d.year + 1, 1, 1)

RECURSIVE AddDays(_, _)
AddDays(d, n) == IF n = 0 THEN d ELSE AddDays(NextDay(d), n - 1)

\* current_date <= end_date
DateLE(a, b) == ToOrdinal(a) <= ToOrdinal(b)

\* current_date.replace(hour=h, minute=m, second=0) + timedelta(minutes=plus);
\* no conversion of the service leaves the day
AtClock(d, h, m, plus) ==
  [year |-> d.year, month |-> d.month, day |-> d.day,
   hour |-> h + ((m + plus) \div 60), minute |-> (m + plus) % 60]

(***************************************************************************)
(* The calendar                                                            *)
(***************************************************************************)
base_date == Date(2019, 1, 2)

\* the last day of the horizon (2020-12-31 in the code)
end_date == AddDays(base_date, HorizonDays - 1)

\* holidays.country_holidays('CN', years=range(2019, 2021)): the public
\* holidays of mainland China of 2019 and 2020
ChinaHolidays ==
  { Date(2019, 1, 1), Date(2019, 2, 5), Date(2019, 2, 6), Date(2019, 2, 7),
    Date(2019, 4, 5), Date(2019, 5, 1), Date(2019, 6, 7), Date(2019, 9, 13),
    Date(2019, 10, 1), Date(2019, 10, 2), Date(2019, 10, 3),
    Date(2020, 1, 1), Date(2020, 1, 25), Date(2020, 1, 26), Date(2020, 1, 27),
    Date(2020, 4, 4), Date(2020, 5, 1), Date(2020, 6, 25),
    Date(2020, 10, 1), Date(2020, 10, 2), Date(2020, 10, 3) }

\* mutant of IsTradingDayRaw: the holiday set is not consulted
IsTradingDayRaw_IgnoresHolidays(holidays, date) ==
  IF Weekday(date) >= 5 THEN FALSE
  ELSE TRUE

IsTradingDayRaw(holidays, date) ==
  IF Weekday(date) >= 5 THEN FALSE
  ELSE IF date \in holidays THEN FALSE
  ELSE TRUE

RECURSIVE CalendarLoop(_, _, _)
CalendarLoop(holidays, current_date, days) ==
  IF DateLE(current_date, end_date)
  THEN CalendarLoop(holidays, NextDay(current_date),
                    IF IsTradingDayRaw(holidays, current_date)
                    THEN Append(days, current_date) ELSE days)
  ELSE days

PrecomputeTradingDays(holidays) == CalendarLoop(holidays, base_date, <<>>)

(***************************************************************************)
(* str: strftime, split, strptime                                          *)
(***************************************************************************)
Digits == <<"0", "1", "2", "3", "4", "5", "6", "7", "8", "9">>

DigitChar(n) == Digits[n + 1]

IsDigit(c) == \E i \in 1..Len(Digits) : Digits[i] = c

DigitVal(c) == (CHOOSE i \in 1..Len(Digits) : Digits[i] = c) - 1

\* %m, %d, %H, %M of strftime: two digits, zero padded
Pad2(n) == <<DigitChar((n \div 10) % 10), DigitChar(n % 10)>>

\* %Y of strftime: four digits, zero padded
Pad4(n) == <<DigitChar((n \div 1000) % 10), DigitChar((n \div 100) % 10)>> \o Pad2(n % 100)

\* result_time.strftime("%Y-%m-%d %H:%M")
StrfTime(t) ==
  Pad4(t.year) \o <<"-">> \o Pad2(t.month) \o <<"-">> \o Pad2(t.day)
    \o <<" ">> \o Pad2(t.hour) \o <<":">> \o Pad2(t.minute)

\* the characters str.split() and the \s of strptime treat as white space
IsSpace(c) == c \in {" ", "\t"}

\* str.split(): the maximal runs of characters that are not white space
RECURSIVE SplitLoop(_, _, _, _)
SplitLoop(s, i, word, parts) ==
  IF i > Len(s) THEN (IF word = <<>> THEN parts ELSE Append(parts, word))
  ELSE IF IsSpace(s[i])
       THEN SplitLoop(s, i + 1, <<>>, IF word = <<>> THEN parts ELSE Append(parts, word))
       ELSE SplitLoop(s, i + 1, Append(word, s[i]), parts)

Split(s) == SplitLoop(s, 1, <<>>, <<>>)

\* str.split(sep): the fields between the separators, empty fields kept
RECURSIVE SplitOnLoop(_, _, _, _, _)
SplitOnLoop(s, sep, i, field, fields) ==
  IF i > Len(s) THEN Append(fields, field)
  ELSE IF s[i] = sep
       THEN SplitOnLoop(s, sep, i + 1, <<>>, Append(fields, field))
       ELSE SplitOnLoop(s, sep, i + 1, Append(field, s[i]), fields)

SplitOn(s, sep) == SplitOnLoop(s, sep, 1, <<>>, <<>>)

AllDigits(f) == \A i \in 1..Len(f) : IsDigit(f[i])

RECURSIVE ToIntLoop(_, _, _)
ToIntLoop(f, i, acc) ==
  IF i > Len(f) THEN acc ELSE ToIntLoop(f, i + 1, acc * 10 + DigitVal(f[i]))

\* int(field) of a field of digits
ToInt(f) == ToIntLoop(f, 1, 0)

\* the directives of strptime as the regular expressions of _strptime:
\*   %Y \d\d\d\d        %m 1[0-2]|0[1-9]|[1-9]     %d 3[01]|[12]\d|0[1-9]|[1-9]
\*   %H 2[0-3]|[0-1]\d|\d                          %M [0-5]\d|\d
MatchesY(f) == Len(f) = 4 /\ AllDigits(f)

MatchesNumber(f, lo, hi) ==
  /\ Len(f) \in {1, 2}
  /\ AllDigits(f)
  /\ ToInt(f) >= lo
  /\ ToInt(f) <= hi

Matches_m(f) == MatchesNumber(f, 1, 12)

Matches_d(f) == MatchesNumber(f, 1, 31)

MatchesH(f) == MatchesNumber(f, 0, 23)

MatchesM(f) == MatchesNumber(f, 0, 59)

NoTime == [year |-> 0, month |-> 0, day |-> 0, hour |-> 0, minute |-> 0]

\* datetime.strptime(s, "%Y-%m-%d %H:%M"): [ok |-> TRUE, time |-> t], or
\* [ok |-> FALSE, ...] where strptime raises ValueError: the text does not match
\* the format from its first character, text remains after the match, or the
\* fields name no date (year 0, a day past the end of the month).  A date and a
\* time field hold digits only, so the text matches iff it is a date part and a
\* time part with white space between them and nowhere else.
Strptime(s) ==
  LET parts == Split(s)
      shaped == /\ Len(parts) = 2
                /\ ~IsSpace(s[1])
                /\ ~IsSpace(s[Len(s)])
      dateF == IF shaped THEN SplitOn(parts[1], "-") ELSE <<>>
      timeF == IF shaped THEN SplitOn(parts[2], ":") ELSE <<>>
      matched == /\ shaped
                 /\ Len(dateF) = 3
                 /\ Len(timeF) = 2
                 /\ MatchesY(dateF[1])
                 /\ Matches_m(dateF[2])
                 /\ Matches_d(dateF[3])
                 /\ MatchesH(timeF[1])
                 /\ MatchesM(timeF[2])
      real == /\ matched
              /\ ToInt(dateF[1]) >= 1
              /\ ToInt(dateF[3]) <= DaysInMonth(ToInt(dateF[1]), ToInt(dateF[2]))
  IN IF real
     THEN [ok |-> TRUE,
           time |-> [year |-> ToInt(dateF[1]), month |-> ToInt(dateF[2]),
                     day |-> ToInt(dateF[3]), hour |-> ToInt(timeF[1]),
                     minute |-> ToInt(timeF[2])]]
     ELSE [ok |-> FALSE, time |-> NoTime]

(***************************************************************************)
(* What a call returns: Ok(value), or Raise(kind, detail) for an exception. *)
(* The ValueErrors of the service differ by their message; kind names the   *)
(* message: "OutOfRange" (line 96), "BadFormat" (line 160), "NotTradingDay" *)
(* (line 172), "OutsideTradingHours" (line 215).  "IndexError" is the       *)
(* exception of a list index out of range.                                  *)
(***************************************************************************)
None == "None"

Ok(v) == [kind |-> "ok", value |-> v]

Raise(kind, detail) == [kind |-> kind, value |-> detail]

(***************************************************************************)
(* get_accurate_time                                                       *)
(***************************************************************************)
\* time_step in self._result_cache
CacheHit(cache, time_step) == time_step \in DOMAIN cache

\* mutants of BeyondCalendar: the comparison is strict; the last day of the
\* calendar is taken to lie beyond it
BeyondCalendar_Strict(days, trading_days_needed) == trading_days_needed > Len(days)

BeyondCalendar_OffByOne(days, trading_days_needed) == trading_days_needed >= Len(days) - 1

\* trading_days_needed >= len(self.trading_days)
BeyondCalendar(days, trading_days_needed) == trading_days_needed >= Len(days)

\* len(self.trading_days) * steps_per_day - 1
MaxSupported(days) == Len(days) * steps_per_day - 1

\* mutant of SlotTime: the post-close step is rendered as 14:55
SlotTime_PostCloseAt1455(current_date, step_in_day) ==
  IF step_in_day = 0 THEN AtClock(current_date, 9, 15, 0)
  ELSE IF 1 <= step_in_day /\ step_in_day <= 24
       THEN AtClock(current_date, 9, 30, (step_in_day - 1) * 5)
  ELSE IF 25 <= step_in_day /\ step_in_day <= 48
       THEN AtClock(current_date, 13, 0, (step_in_day - 25) * 5)
  ELSE AtClock(current_date, 14, 55, 0)

\* mutant of SlotTime: the afternoon session starts at 12:57
SlotTime_From1257(current_date, step_in_day) ==
  IF step_in_day = 0 THEN AtClock(current_date, 9, 15, 0)
  ELSE IF 1 <= step_in_day /\ step_in_day <= 24
       THEN AtClock(current_date, 9, 30, (step_in_day - 1) * 5)
  ELSE IF 25 <= step_in_day /\ step_in_day <= 48
       THEN AtClock(current_date, 12, 57, (step_in_day - 25) * 5)
  ELSE AtClock(current_date, 15, 0, 0)

\* mutant of SlotTime: the morning session counts its steps from 0
SlotTime_MorningOffByOne(current_date, step_in_day) ==
  IF step_in_day = 0 THEN AtClock(current_date, 9, 15, 0)
  ELSE IF 1 <= step_in_day /\ step_in_day <= 24
       THEN AtClock(current_date, 9, 30, step_in_day * 5)
  ELSE IF 25 <= step_in_day /\ step_in_day <= 48
       THEN AtClock(current_date, 13, 0, (step_in_day - 25) * 5)
  ELSE AtClock(current_date, 15, 0, 0)

\* the time of day of a step of the day
SlotTime(current_date, step_in_day) ==
  IF step_in_day = 0 THEN AtClock(current_date, 9, 15, 0)
  ELSE IF 1 <= step_in_day /\ step_in_day <= 24
       THEN AtClock(current_date, 9, 30, (step_in_day - 1) * 5)
  ELSE IF 25 <= step_in_day /\ step_in_day <= 48
       THEN AtClock(current_date, 13, 0, (step_in_day - 25) * 5)
  ELSE AtClock(current_date, 15, 0, 0)

\* self.trading_days[i] is defined for -len <= i < len, an index i < 0 counting
\* from the end of the list; any other index raises IndexError
InIndexRange(days, i) == (0 - Len(days)) <= i /\ i < Len(days)

ListItem(days, i) == IF i >= 0 THEN days[i + 1] ELSE days[Len(days) + i + 1]

\* the conversion below the cache check; // and % round toward minus infinity,
\* as \div and % do
ComputeAccurateTime(days, time_step) ==
  LET trading_days_needed == time_step \div steps_per_day
      step_in_day == time_step % steps_per_day
  IN IF BeyondCalendar(days, trading_days_needed)
     THEN Raise("OutOfRange", MaxSupported(days))
     ELSE IF ~InIndexRange(days, trading_days_needed)
          THEN Raise("IndexError", None)
          ELSE LET current_date == ListItem(days, trading_days_needed)
               IN Ok(StrfTime(SlotTime(current_date, step_in_day)))

\* mutant of CacheStore: the entry is stored under the step of the day
CacheStore_BySlot(cache, time_step, result_str) ==
  IF Cardinality(DOMAIN cache) < CacheCap
  THEN [k \in DOMAIN cache \cup {time_step % steps_per_day} |->
          IF k = time_step % steps_per_day THEN result_str ELSE cache[k]]
  ELSE cache

\* mutant of CacheStore: the size test lets a full cache grow by one
CacheStore_OffByOne(cache, time_step, result_str) ==
  IF Cardinality(DOMAIN cache) <= CacheCap
  THEN [k \in DOMAIN cache \cup {time_step} |->
          IF k = time_step THEN result_str ELSE cache[k]]
  ELSE cache

\* mutant of CacheStore: a full cache is emptied to take the new entry
CacheStore_EvictsWhenFull(cache, time_step, result_str) ==
  IF Cardinality(DOMAIN cache) < CacheCap
  THEN [k \in DOMAIN cache \cup {time_step} |->
          IF k = time_step THEN result_str ELSE cache[k]]
  ELSE [k \in {time_step} |-> result_str]

\* if len(self._result_cache) < 10000: self._result_cache[time_step] = result_str
CacheStore(cache, time_step, result_str) ==
  IF Cardinality(DOMAIN cache) < CacheCap
  THEN [k \in DOMAIN cache \cup {time_step} |->
          IF k = time_step THEN result_str ELSE cache[k]]
  ELSE cache

\* mutant of AccurateTimeCall: a call that raises leaves an empty text in the
\* cache under its step
AccurateTimeCall_CachesFailure(cache, days, time_step) ==
  IF CacheHit(cache, time_step)
  THEN [ret |-> Ok(cache[time_step]), cache |-> cache]
  ELSE LET r == ComputeAccurateTime(days, time_step)
       IN [ret |-> r,
           cache |-> CacheStore(cache, time_step,
                                IF r.kind = "ok" THEN r.value ELSE <<>>)]

\* the whole call: what it returns and the cache it leaves
AccurateTimeCall(cache, days, time_step) ==
  IF CacheHit(cache, time_step)
  THEN [ret |-> Ok(cache[time_step]), cache |-> cache]
  ELSE LET r == ComputeAccurateTime(days, time_step)
       IN [ret |-> r,
           cache |-> IF r.kind = "ok" THEN CacheStore(cache, time_step, r.value)
                     ELSE cache]

GetAccurateTime(time_step) ==
  LET c == AccurateTimeCall(result_cache, trading_days, time_step)
  IN /\ last' = [op |-> "get_accurate_time", arg |-> time_step, ret |-> c.ret]
     /\ result_cache' = c.cache
     /\ pre_cache' = result_cache
     /\ UNCHANGED <<china_holidays, trading_days, threads, db>>

(***************************************************************************)
(* clear_cache, get_cache_stats                                            *)
(***************************************************************************)
EmptyCache == <<>>

\* mutant of ClearCache: the entries stay
ClearCache_KeepsEntries ==
  /\ result_cache' = result_cache
  /\ pre_cache' = result_cache
  /\ last' = [op |-> "clear_cache", arg |-> None, ret |-> Ok(None)]
  /\ UNCHANGED <<china_holidays, trading_days, threads, db>>

\* mutant of ClearCache: the calendar is emptied with the cache
ClearCache_DropsCalendar ==
  /\ result_cache' = EmptyCache
  /\ trading_days' = <<>>
  /\ pre_cache' = result_cache
  /\ last' = [op |-> "clear_cache", arg |-> None, ret |-> Ok(None)]
  /\ UNCHANGED <<china_holidays, threads, db>>

ClearCache ==
  /\ result_cache' = EmptyCache
  /\ pre_cache' = result_cache
  /\ last' = [op |-> "clear_cache", arg |-> None, ret |-> Ok(None)]
  /\ UNCHANGED <<china_holidays, trading_days, threads, db>>

\* mutant of CacheStats: the maximum is the number of steps
CacheStats_MaxOffByOne(cache, days) ==
  [cache_size |-> Cardinality(DOMAIN cache),
   trading_days_count |-> Len(days),
   max_supported_time_step |-> Len(days) * 50]

CacheStats(cache, days) ==
  [cache_size |-> Cardinality(DOMAIN cache),
   trading_days_count |-> Len(days),
   max_supported_time_step |-> Len(days) * 50 - 1]

GetCacheStats ==
  /\ last' = [op |-> "get_cache_stats", arg |-> None,
              ret |-> Ok(CacheStats(result_cache, trading_days))]
  /\ pre_cache' = result_cache
  /\ UNCHANGED <<china_holidays, trading_days, result_cache, threads, db>>

(***************************************************************************)
(* get_time_step                                                           *)
(***************************************************************************)
\* mutant of ParseTimeInput: a text with a seconds field is read without it
ParseTimeInput_TakesSeconds(time_input) ==
  IF Len(Split(time_input)) # 2 THEN [ok |-> FALSE, time |-> NoTime]
  ELSE IF Len(SplitOn(Split(time_input)[2], ":")) = 2 THEN Strptime(time_input)
  ELSE IF Len(SplitOn(Split(time_input)[2], ":")) = 3 /\ Len(time_input) > 3
       THEN Strptime(SubSeq(time_input, 1, Len(time_input) - 3))
  ELSE [ok |-> FALSE, time |-> NoTime]

\* the try block: the shape test on the split text, then strptime; ok is FALSE
\* where the block raises ValueError
ParseTimeInput(time_input) ==
  IF /\ Len(Split(time_input)) = 2
     /\ Len(SplitOn(Split(time_input)[2], ":")) = 2
  THEN Strptime(time_input)
  ELSE [ok |-> FALSE, time |-> NoTime]

\* mutant of FindTradingDay: the scan compares month and day only
FindTradingDay_IgnoresYear(days, input_date) ==
  LET at == {i \in 1..Len(days) : /\ days[i].month = input_date.month
                                  /\ days[i].day = input_date.day}
  IN IF at = {} THEN [found |-> FALSE, index |-> 0]
     ELSE [found |-> TRUE, index |-> (CHOOSE i \in at : \A j \in at : i <= j) - 1]

\* mutant of FindTradingDay: the index counts from 1
FindTradingDay_IndexFromOne(days, input_date) ==
  LET at == {i \in 1..Len(days) : days[i] = input_date}
  IN IF at = {} THEN [found |-> FALSE, index |-> 0]
     ELSE [found |-> TRUE, index |-> (CHOOSE i \in at : \A j \in at : i <= j)]

\* the scan of self.trading_days for input_date: the first index, from 0
FindTradingDay(days, input_date) ==
  LET at == {i \in 1..Len(days) : days[i] = input_date}
  IN IF at = {} THEN [found |-> FALSE, index |-> 0]
     ELSE [found |-> TRUE, index |-> (CHOOSE i \in at : \A j \in at : i <= j) - 1]

\* mutant of RoundDiv5: the minutes are rounded down
RoundDiv5_Floor(minutes) == minutes \div 5

\* round(minutes / 5): minutes / 5 is never half way between two integers
RoundDiv5(minutes) == (2 * minutes + 5) \div 10

\* rounded_minutes = round(minutes / 5) * 5; first + rounded_minutes // 5
RoundedSlot(first, minutes) == first + ((RoundDiv5(minutes) * 5) \div 5)

\* mutant of StepInDay: the morning session takes all of hour 11
StepInDay_LunchOpen(hour, minute) ==
  IF hour = 9 /\ 10 <= minute /\ minute <= 20 THEN [ok |-> TRUE, step |-> 0]
  ELSE IF hour = 9 /\ minute >= 30
       THEN [ok |-> TRUE, step |-> RoundedSlot(1, minute - 30)]
  ELSE IF hour = 10 THEN [ok |-> TRUE, step |-> RoundedSlot(1, 30 + minute)]
  ELSE IF hour = 11
       THEN [ok |-> TRUE, step |-> RoundedSlot(1, 90 + minute)]
  ELSE IF hour = 13 THEN [ok |-> TRUE, step |-> RoundedSlot(25, minute)]
  ELSE IF hour = 14 /\ minute <= 60
       THEN [ok |-> TRUE, step |-> RoundedSlot(25, 60 + minute)]
  ELSE IF hour = 15 /\ minute <= 5 THEN [ok |-> TRUE, step |-> 49]
  ELSE [ok |-> FALSE, step |-> 0]

\* mutant of StepInDay: the post-close branch comes first and takes 14:58 to
\* 15:03
StepInDay_PostCloseShifted(hour, minute) ==
  IF (hour = 14 /\ minute >= 58) \/ (hour = 15 /\ minute <= 3)
  THEN [ok |-> TRUE, step |-> 49]
  ELSE IF hour = 9 /\ 10 <= minute /\ minute <= 20 THEN [ok |-> TRUE, step |-> 0]
  ELSE IF hour = 9 /\ minute >= 30
       THEN [ok |-> TRUE, step |-> RoundedSlot(1, minute - 30)]
  ELSE IF hour = 10 THEN [ok |-> TRUE, step |-> RoundedSlot(1, 30 + minute)]
  ELSE IF hour = 11 /\ minute <= 30
       THEN [ok |-> TRUE, step |-> RoundedSlot(1, 90 + minute)]
  ELSE IF hour = 13 THEN [ok |-> TRUE, step |-> RoundedSlot(25, minute)]
  ELSE IF hour = 14 /\ minute <= 60
       THEN [ok |-> TRUE, step |-> RoundedSlot(25, 60 + minute)]
  ELSE [ok |-> FALSE, step |-> 0]

\* mutant of StepInDay: the pre-open branch starts after 09:10
StepInDay_PreOpenStrict(hour, minute) ==
  IF hour = 9 /\ 10 < minute /\ minute <= 20 THEN [ok |-> TRUE, step |-> 0]
  ELSE IF hour = 9 /\ minute >= 30
       THEN [ok |-> TRUE, step |-> RoundedSlot(1, minute - 30)]
  ELSE IF hour = 10 THEN [ok |-> TRUE, step |-> RoundedSlot(1, 30 + minute)]
  ELSE IF hour = 11 /\ minute <= 30
       THEN [ok |-> TRUE, step |-> RoundedSlot(1, 90 + minute)]
  ELSE IF hour = 13 THEN [ok |-> TRUE, step |-> RoundedSlot(25, minute)]
  ELSE IF hour = 14 /\ minute <= 60
       THEN [ok |-> TRUE, step |-> RoundedSlot(25, 60 + minute)]
  ELSE IF hour = 15 /\ minute <= 5 THEN [ok |-> TRUE, step |-> 49]
  ELSE [ok |-> FALSE, step |-> 0]

\* the if/elif chain on (hour, minute): the step of the day, or ok = FALSE
StepInDay(hour, minute) ==
  IF hour = 9 /\ 10 <= minute /\ minute <= 20 THEN [ok |-> TRUE, step |-> 0]
  ELSE IF hour = 9 /\ minute >= 30
       THEN [ok |-> TRUE, step |-> RoundedSlot(1, minute - 30)]
  ELSE IF hour = 10 THEN [ok |-> TRUE, step |-> RoundedSlot(1, 30 + minute)]
  ELSE IF hour = 11 /\ minute <= 30
       THEN [ok |-> TRUE, step |-> RoundedSlot(1, 90 + minute)]
  ELSE IF hour = 13 THEN [ok |-> TRUE, step |-> RoundedSlot(25, minute)]
  ELSE IF hour = 14 /\ minute <= 60
       THEN [ok |-> TRUE, step |-> RoundedSlot(25, 60 + minute)]
  ELSE IF hour = 15 /\ minute <= 5 THEN [ok |-> TRUE, step |-> 49]
  ELSE [ok |-> FALSE, step |-> 0]

\* mutant of TimeStepCall: the time of day is tested before the date
TimeStepCall_HoursFirst(days, time_input) ==
  LET parsed == ParseTimeInput(time_input)
      input_time == parsed.time
      input_date == Date(input_time.year, input_time.month, input_time.day)
      day == FindTradingDay(days, input_date)
      slot == StepInDay(input_time.hour, input_time.minute)
  IN IF ~parsed.ok THEN Raise("BadFormat", time_input)
     ELSE IF ~slot.ok THEN Raise("OutsideTradingHours", time_input)
     ELSE IF ~day.found THEN Raise("NotTradingDay", input_date)
     ELSE Ok(day.index * 50 + slot.step)

TimeStepCall(days, time_input) ==
  LET parsed == ParseTimeInput(time_input)
      input_time == parsed.time
      input_date == Date(input_time.year, input_time.month, input_time.day)
      day == FindTradingDay(days, input_date)
      slot == StepInDay(input_time.hour, input_time.minute)
  IN IF ~parsed.ok THEN Raise("BadFormat", time_input)
     ELSE IF ~day.found THEN Raise("NotTradingDay", input_date)
     ELSE IF ~slot.ok THEN Raise("OutsideTradingHours", time_input)
     ELSE Ok(day.index * 50 + slot.step)

GetTimeStep(time_input) ==
  /\ last' = [op |-> "get_time_step", arg |-> time_input,
              ret |-> TimeStepCall(trading_days, time_input)]
  /\ pre_cache' = result_cache
  /\ UNCHANGED <<china_holidays, trading_days, result_cache, threads, db>>

(***************************************************************************)
(* routes/time_routes.py: POST /api/times and POST /api/timestep.  A JSON   *)
(* value is [type, value], its type one of "object", "list", "str", "int",  *)
(* "float", "bool", "null"; an object is a function from its keys.  The     *)
(* texts of the code that are not ASCII are written as jsonify sends them,  *)
(* with \uXXXX escapes; a message is the sequence of its literal parts and  *)
(* of the characters of its arguments.                                      *)
(***************************************************************************)
JNull == [type |-> "null", value |-> None]

JInt(n) == [type |-> "int", value |-> n]

JBool(b) == [type |-> "bool", value |-> b]

JFloat(digits) == [type |-> "float", value |-> digits]

JStr(chars) == [type |-> "str", value |-> chars]

JList(items) == [type |-> "list", value |-> items]

JObject(fields) == [type |-> "object", value |-> fields]

\* the object {key: v}
Field(key, v) == JObject([k \in {key} |-> v])

\* data.get(key) on a dict: the value, None for an absent key or a JSON null
DictGet(data, key) ==
  IF key \in DOMAIN data.value THEN data.value[key] ELSE JNull

\* isinstance(v, int): bool is a subclass of int
IsInstanceInt(v) == v.type \in {"int", "bool"}

\* isinstance(v, str)
IsInstanceStr(v) == v.type = "str"

\* the integer a Python int or bool counts as: True is 1, False is 0
PyInt(v) == IF v.type = "bool" THEN (IF v.value THEN 1 ELSE 0) ELSE v.value

\* str(n) of a natural number, and of an integer
RECURSIVE NatText(_)
NatText(n) == IF n < 10 THEN <<DigitChar(n)>> ELSE NatText(n \div 10) \o <<DigitChar(n % 10)>>

IntText(n) == IF n < 0 THEN <<"-">> \o NatText(0 - n) ELSE NatText(n)

\* str(input_date) of a date: YYYY-MM-DD
DateText(d) == Pad4(d.year) \o <<"-">> \o Pad2(d.month) \o <<"-">> \o Pad2(d.day)

\* mutant of ErrorText: every error of the service has the same message
ErrorText_Generic(arg, raised) == <<"\\u53c2\\u6570\\u9519\\u8bef">>

\* str(e) of the exception a call of the service with the argument arg raised
ErrorText(arg, raised) ==
  IF raised.kind = "OutOfRange"
  THEN <<"\\u65f6\\u95f4\\u6b65\\u957f ">> \o IntText(arg) \o <<" \\u8d85\\u51fa\\u4e86\\u9884\\u8ba1\\u7b97\\u8303\\u56f4\\uff0c\\u6700\\u5927\\u652f\\u6301 ">> \o IntText(raised.value)
  ELSE IF raised.kind = "BadFormat"
  THEN <<"\\u65e0\\u6cd5\\u89e3\\u6790\\u65f6\\u95f4\\u683c\\u5f0f '">> \o arg
       \o <<"'\\uff0c\\u652f\\u6301\\u683c\\u5f0f: 'YYYY-MM-DD HH:MM' \\u6216 'YYYY-MM-DD HH:MM:SS'">>
  ELSE IF raised.kind = "NotTradingDay"
  THEN <<"'">> \o DateText(raised.value) \o <<"' \\u4e0d\\u662f\\u4ea4\\u6613\\u65e5">>
  ELSE IF raised.kind = "OutsideTradingHours"
  THEN <<"\\u65f6\\u95f4 '">> \o arg \o <<"' \\u4e0d\\u5728\\u4ea4\\u6613\\u65f6\\u95f4\\u5185">>
  ELSE IF raised.kind = "IndexError" THEN <<"list index out of range">>
  ELSE <<raised.kind>>

\* jsonify({"error": error, "message": message}), status
ErrorResponse(status, error, message) ==
  [status |-> status, body |-> [error |-> error, message |-> message]]

\* data.get on a body that is no object raises AttributeError
NoDictResponse(data) ==
  ErrorResponse(500, "\\u670d\\u52a1\\u5668\\u5185\\u90e8\\u9519\\u8bef",
                <<IF data.type = "null"
                  THEN "'NoneType' object has no attribute 'get'"
                  ELSE "'list' object has no attribute 'get'">>)

\* get_time with request.get_json() = data on the cache: the response and the
\* cache afterwards
TimesResponse(cache, days, data) ==
  LET time_step == DictGet(data, "time_step")
      call == AccurateTimeCall(cache, days, PyInt(time_step))
  IN IF data.type # "object"
     THEN [response |-> NoDictResponse(data), cache |-> cache]
     ELSE IF time_step.type = "null"
     THEN [response |-> ErrorResponse(400, "\\u7f3a\\u5c11time_step\\u53c2\\u6570",
                                      <<"\\u8bf7\\u63d0\\u4f9b\\u6709\\u6548\\u7684\\u65f6\\u95f4\\u6b65\\u957f">>),
           cache |-> cache]
     ELSE IF ~IsInstanceInt(time_step)
     THEN [response |-> ErrorResponse(400, "time_step\\u7c7b\\u578b\\u9519\\u8bef",
                                      <<"time_step\\u5fc5\\u987b\\u662f\\u6574\\u6570">>),
           cache |-> cache]
     ELSE IF PyInt(time_step) < 0
     THEN [response |-> ErrorResponse(400, "time_step\\u8303\\u56f4\\u9519\\u8bef",
                                      <<"time_step\\u4e0d\\u80fd\\u4e3a\\u8d1f\\u6570">>),
           cache |-> cache]
     ELSE IF call.ret.kind = "ok"
     THEN [response |-> [status |-> 200, body |-> [accurate_time |-> call.ret.value]],
           cache |-> call.cache]
     ELSE [response |-> ErrorResponse(500, "\\u670d\\u52a1\\u5668\\u5185\\u90e8\\u9519\\u8bef",
                                      ErrorText(PyInt(time_step), call.ret)),
           cache |-> call.cache]

PostTimes(data) ==
  /\ last' = [op |-> "POST /api/times", arg |-> data,
              ret |-> TimesResponse(result_cache, trading_days, data).response]
  /\ result_cache' = TimesResponse(result_cache, trading_days, data).cache
  /\ pre_cache' = result_cache
  /\ UNCHANGED <<china_holidays, trading_days, threads, db>>

\* get_timestep with request.get_json() = data
TimestepResponse(days, data) ==
  LET time_input == DictGet(data, "time")
      call == TimeStepCall(days, time_input.value)
  IN IF data.type # "object" THEN NoDictResponse(data)
     ELSE IF time_input.type = "null"
     THEN ErrorResponse(400, "\\u7f3a\\u5c11time\\u53c2\\u6570",
                        <<"\\u8bf7\\u63d0\\u4f9b\\u6709\\u6548\\u7684\\u65f6\\u95f4\\u5b57\\u7b26\\u4e32">>)
     ELSE IF ~IsInstanceStr(time_input)
     THEN ErrorResponse(400, "time\\u7c7b\\u578b\\u9519\\u8bef",
                        <<"time\\u5fc5\\u987b\\u662f\\u5b57\\u7b26\\u4e32">>)
     ELSE IF call.kind = "ok"
     THEN [status |-> 200, body |-> [time_step |-> call.value]]
     ELSE ErrorResponse(400, "\\u53c2\\u6570\\u9519\\u8bef", ErrorText(time_input.value, call))

PostTimestep(data) ==
  /\ last' = [op |-> "POST /api/timestep", arg |-> data,
              ret |-> TimestepResponse(trading_days, data)]
  /\ pre_cache' = result_cache
  /\ UNCHANGED <<china_holidays, trading_days, result_cache, threads, db>>

(***************************************************************************)
(* Threads.  The service is one object shared by the request threads of    *)
(* the server, and nothing locks the cache.  A thread runs                  *)
(* get_accurate_time one statement at a time; each statement reads or       *)
(* writes the dict once, and statements of other threads run in between.    *)
(* pc names the statement a thread is about to run: "test" (line 84),       *)
(* "read" (line 85), "compute" (lines 88-116), "size" (line 119), "store"   *)
(* (line 120), "return" (line 122); "done" after the call returned or       *)
(* raised, with what it returned or raised in result.                       *)
(***************************************************************************)
Threads == 1..NumThreads

Idle == [pc |-> "idle", time_step |-> 0, result |-> Ok(None)]

\* the thread moves to pc with a result
Moved(t, pc, result) ==
  [threads EXCEPT ![t] = [pc |-> pc, time_step |-> threads[t].time_step,
                          result |-> result]]

\* mutant of DictSet: the value is stored under the next key
DictSet_WrongKey(cache, time_step, result_str) ==
  [k \in DOMAIN cache \cup {time_step + 1} |->
     IF k = time_step + 1 THEN result_str ELSE cache[k]]

\* self._result_cache[time_step] = result_str
DictSet(cache, time_step, result_str) ==
  [k \in DOMAIN cache \cup {time_step} |->
     IF k = time_step THEN result_str ELSE cache[k]]

\* a thread enters get_accurate_time(time_step)
ThreadCall(t, time_step) ==
  /\ threads[t].pc \in {"idle", "done"}
  /\ threads' = [threads EXCEPT ![t] = [pc |-> "test", time_step |-> time_step,
                                        result |-> Ok(None)]]
  /\ UNCHANGED <<china_holidays, trading_days, result_cache, last, pre_cache, db>>

\* line 84: if time_step in self._result_cache
ThreadTest(t) ==
  /\ threads[t].pc = "test"
  /\ threads' = Moved(t, IF CacheHit(result_cache, threads[t].time_step)
                         THEN "read" ELSE "compute", Ok(None))
  /\ UNCHANGED <<china_holidays, trading_days, result_cache, last, pre_cache, db>>

\* line 85: return self._result_cache[time_step]; the subscript raises
\* KeyError when the key is no longer in the dict
ThreadRead(t) ==
  /\ threads[t].pc = "read"
  /\ threads' = Moved(t, "done",
                      IF threads[t].time_step \in DOMAIN result_cache
                      THEN Ok(result_cache[threads[t].time_step])
                      ELSE Raise("KeyError", threads[t].time_step))
  /\ UNCHANGED <<china_holidays, trading_days, result_cache, last, pre_cache, db>>

\* lines 88-116: result_str, or the exception of line 96 or 98
ThreadCompute(t) ==
  /\ threads[t].pc = "compute"
  /\ LET r == ComputeAccurateTime(trading_days, threads[t].time_step)
     IN threads' = Moved(t, IF r.kind = "ok" THEN "size" ELSE "done", r)
  /\ UNCHANGED <<china_holidays, trading_days, result_cache, last, pre_cache, db>>

\* line 119: if len(self._result_cache) < 10000; otherwise line 122
ThreadSize(t) ==
  /\ threads[t].pc = "size"
  /\ threads' = Moved(t, IF Cardinality(DOMAIN result_cache) < CacheCap
                         THEN "store" ELSE "return", threads[t].result)
  /\ UNCHANGED <<china_holidays, trading_days, result_cache, last, pre_cache, db>>

\* line 120: self._result_cache[time_step] = result_str
ThreadStore(t) ==
  /\ threads[t].pc = "store"
  /\ result_cache' = DictSet(result_cache, threads[t].time_step, threads[t].result.value)
  /\ threads' = Moved(t, "return", threads[t].result)
  /\ UNCHANGED <<china_holidays, trading_days, last, pre_cache, db>>

\* line 122: return result_str
ThreadReturn(t) ==
  /\ threads[t].pc = "return"
  /\ threads' = Moved(t, "done", threads[t].result)
  /\ UNCHANGED <<china_holidays, trading_days, result_cache, last, pre_cache, db>>

\* a thread that is in no call runs clear_cache: line 126
ThreadClear(t) ==
  /\ threads[t].pc \in {"idle", "done"}
  /\ result_cache' = EmptyCache
  /\ UNCHANGED <<china_holidays, trading_days, last, pre_cache, threads, db>>

(***************************************************************************)
(* database.py and services/umap_service.py: the DatabaseManager and the    *)
(* three queries of UMAPCoordinateService.  self.connection is None, "open"  *)
(* (a live psycopg2 connection), "broken" (the server went away and no       *)
(* statement has noticed yet: its closed attribute is still 0) or "closed".  *)
(* A stock code is a text of digits; umap1 and umap2 are whole numbers in    *)
(* the model, and a mean is the pair of a sum and a count.                   *)
(***************************************************************************)
\* the manager before _connect, with the server reachable or not
Unconnected(reachable) == [connection |-> None, reachable |-> reachable]

\* _connect: psycopg2.connect succeeds iff the server can be reached
Connect(d) ==
  [connection |-> IF d.reachable THEN "open" ELSE None, reachable |-> d.reachable]

\* self.connection.closed
Closed(d) == d.connection = "closed"

\* is_connected
IsConnected(d) == d.connection # None /\ ~Closed(d)

\* get_connection: the manager afterwards; its connection is what is returned
GetConnection(d) ==
  IF d.connection = None \/ Closed(d) THEN Connect(d) ELSE d

\* get_cursor: the manager afterwards, and whether a cursor is returned
GetCursor(d) ==
  LET after == GetConnection(d)
  IN [db |-> after, cursor |-> after.connection # None]

\* cursor.execute on a connection raises when the server cannot be reached or
\* the connection is broken; psycopg2 then marks the connection closed
ExecuteRaises(d) == ~d.reachable \/ d.connection = "broken"

AfterRaise(d) == [connection |-> "closed", reachable |-> d.reachable]

\* str(e) of the exception of psycopg2
ExecuteError == "server closed the connection unexpectedly"

\* the guard and the try block the three queries share: what is returned when
\* there is no connection, when execute raises, and when the query is served;
\* and the manager afterwards
Query(d, unconnected, raised, served) ==
  IF ~IsConnected(d) THEN [ret |-> unconnected, db |-> d]
  ELSE LET got == GetCursor(d)
       IN IF ~got.cursor THEN [ret |-> unconnected, db |-> got.db]
          ELSE IF ExecuteRaises(got.db)
          THEN [ret |-> raised, db |-> AfterRaise(got.db)]
          ELSE [ret |-> served, db |-> got.db]

\* the rows of the table umap_coordinates
UmapCoordinates ==
  { [stock_id |-> <<"0", "0", "0", "0", "0", "2">>, timestep |-> 0, umap1 |-> 3, umap2 |-> 7],
    [stock_id |-> <<"0", "0", "0", "0", "0", "2">>, timestep |-> 1, umap1 |-> 5, umap2 |-> 6],
    [stock_id |-> <<"0", "0", "0", "0", "0", "1">>, timestep |-> 0, umap1 |-> 4, umap2 |-> 2],
    [stock_id |-> <<"6", "0", "0", "0", "0", "0">>, timestep |-> 1, umap1 |-> 1, umap2 |-> 9] }

\* the rows of the table stock_list
StockList ==
  { [a_stock_code |-> <<"0", "0", "0", "0", "0", "1">>, a_stock_name |-> "PAB", industry |-> "bank"],
    [a_stock_code |-> <<"0", "0", "0", "0", "0", "2">>, a_stock_name |-> "VANKE", industry |-> "estate"] }

\* ORDER BY stock_id of a set of codes of the same length
RECURSIVE OrderByCode(_)
OrderByCode(codes) ==
  IF codes = {} THEN <<>>
  ELSE LET first == CHOOSE c \in codes : \A o \in codes : ToInt(c) <= ToInt(o)
       IN <<first>> \o OrderByCode(codes \ {first})

\* SELECT DISTINCT stock_id FROM umap_coordinates ORDER BY stock_id
AvailableStocks == OrderByCode({row.stock_id : row \in UmapCoordinates})

RECURSIVE SumOf(_, _)
SumOf(rows, column) ==
  IF rows = {} THEN 0
  ELSE LET row == CHOOSE r \in rows : TRUE
       IN row[column] + SumOf(rows \ {row}, column)

MinOf(rows, column) == CHOOSE v \in {r[column] : r \in rows} : \A r \in rows : v <= r[column]

MaxOf(rows, column) == CHOOSE v \in {r[column] : r \in rows} : \A r \in rows : v >= r[column]

\* min, max and AVG of a column
ColumnStats(rows, column) ==
  [min |-> MinOf(rows, column), max |-> MaxOf(rows, column),
   mean |-> <<SumOf(rows, column), Cardinality(rows)>>]

\* the statistics of a stock: the rows of umap_coordinates joined with
\* stock_list; None when the join is empty
StockInfo(stock_code) ==
  LET listed == {s \in StockList : s.a_stock_code = stock_code}
      rows == IF listed = {} THEN {}
              ELSE {u \in UmapCoordinates : u.stock_id = stock_code}
  IN IF rows = {} THEN None
     ELSE [stock_code |-> stock_code,
           stock_name |-> (CHOOSE s \in listed : TRUE).a_stock_name,
           industry |-> (CHOOSE s \in listed : TRUE).industry,
           total_time_steps |-> Cardinality(rows),
           time_step_range |-> [min |-> MinOf(rows, "timestep"),
                                max |-> MaxOf(rows, "timestep")],
           coordinate_stats |-> [umap1 |-> ColumnStats(rows, "umap1"),
                                 umap2 |-> ColumnStats(rows, "umap2")]]

\* the codes of a list
CodesOf(stock_codes) == {stock_codes[i] : i \in 1..Len(stock_codes)}

\* result of get_coordinates with the same error for every code that has no
\* coordinates
AllErrors(stock_codes, time_step, error) ==
  [time_step |-> time_step,
   coordinates |-> <<>>,
   errors |-> [c \in CodesOf(stock_codes) |-> error]]

\* str(e) of the KeyError that fetchone()[0] raises on the row of a
\* RealDictCursor, which has the names of the columns as its keys
KeyErrorText == "0"

\* result of get_coordinates when the statements run: the rows found give the
\* coordinates; for the first code without a row the count is read as
\* fetchone()[0] from the dict cursor, which raises, and the handler reports
\* the query error for every code without coordinates
Coordinates(stock_codes, time_step) ==
  LET rows == {u \in UmapCoordinates :
                 u.stock_id \in CodesOf(stock_codes) /\ u.timestep = time_step}
      found_stocks == {u.stock_id : u \in rows}
      RowOf(c) == CHOOSE u \in rows : u.stock_id = c
  IN [time_step |-> time_step,
      coordinates |-> [c \in found_stocks |->
                         [umap1 |-> RowOf(c).umap1, umap2 |-> RowOf(c).umap2,
                          time_step |-> RowOf(c).timestep]],
      errors |-> [c \in CodesOf(stock_codes) \ found_stocks |->
                    <<"\\u67e5\\u8be2\\u9519\\u8bef: ", KeyErrorText>>]]

GetAvailableStocks ==
  LET q == Query(db, <<>>, <<>>, AvailableStocks)
  IN /\ last' = [op |-> "get_available_stocks", arg |-> None, ret |-> q.ret,
                 found |-> db]
     /\ db' = q.db
     /\ pre_cache' = result_cache
     /\ UNCHANGED <<china_holidays, trading_days, result_cache, threads>>

GetStockInfo(stock_code) ==
  LET q == Query(db, None, None, StockInfo(stock_code))
  IN /\ last' = [op |-> "get_stock_info", arg |-> stock_code, ret |-> q.ret,
                 found |-> db]
     /\ db' = q.db
     /\ pre_cache' = result_cache
     /\ UNCHANGED <<china_holidays, trading_days, result_cache, threads>>

GetCoordinates(stock_codes, time_step) ==
  LET q == Query(db,
                 AllErrors(stock_codes, time_step,
                           <<"\\u6570\\u636e\\u5e93\\u8fde\\u63a5\\u5931\\u8d25">>),
                 AllErrors(stock_codes, time_step,
                           <<"\\u67e5\\u8be2\\u9519\\u8bef: ", ExecuteError>>),
                 Coordinates(stock_codes, time_step))
  IN /\ last' = [op |-> "get_coordinates", arg |-> <<stock_codes, time_step>>,
                 ret |-> q.ret, found |-> db]
     /\ db' = q.db
     /\ pre_cache' = result_cache
     /\ UNCHANGED <<china_holidays, trading_days, result_cache, threads>>

\* close
CloseDatabase ==
  /\ db.connection # None /\ ~Closed(db)
  /\ db' = [connection |-> "closed", reachable |-> db.reachable]
  /\ UNCHANGED <<china_holidays, trading_days, result_cache, last, pre_cache, threads>>

\* the server goes away: a live connection is broken
ServerDown ==
  /\ db.reachable
  /\ db' = [connection |-> IF db.connection = "open" THEN "broken" ELSE db.connection,
            reachable |-> FALSE]
  /\ UNCHANGED <<china_holidays, trading_days, result_cache, last, pre_cache, threads>>

\* the server can be reached again
ServerUp ==
  /\ ~db.reachable
  /\ db' = [connection |-> db.connection, reachable |-> TRUE]
  /\ UNCHANGED <<china_holidays, trading_days, result_cache, last, pre_cache, threads>>

(***************************************************************************)
(* The service after construction, and its callers                         *)
(***************************************************************************)
Init ==
  /\ china_holidays = ChinaHolidays
  /\ trading_days = PrecomputeTradingDays(ChinaHolidays)
  /\ result_cache = EmptyCache
  /\ last = [op |-> "init", arg |-> None, ret |-> Ok(None)]
  /\ pre_cache = EmptyCache
  /\ threads = [t \in Threads |-> Idle]
  /\ db = Connect(Unconnected(TRUE))

\* the number of steps the calendar supports
NumSteps == Len(trading_days) * steps_per_day

\* the steps a caller of Spec asks for: the ends of the slot classes on the
\* first day, the first step of the second day, the last supported step, the
\* first unsupported one, and negative steps
StepArgs ==
  {0 - NumSteps - 1, -1, 0, 1, 24, 25, 48, 49, 50, NumSteps - 1, NumSteps}

\* the text "YYYY-MM-DD HH:MM" of a date and a time of day
TextOf(date, hour, minute) == StrfTime(AtClock(date, hour, minute, 0))

\* 2019-01-01 is a holiday before the horizon, 2019-01-05 a Saturday
ArgDates == {Date(2019, 1, 1), base_date, Date(2019, 1, 4), Date(2019, 1, 5)}

ArgClocks ==
  {<<9, 10>>, <<9, 15>>, <<9, 20>>, <<9, 30>>, <<10, 0>>, <<11, 25>>, <<11, 30>>,
   <<12, 0>>, <<13, 0>>, <<14, 55>>, <<14, 58>>, <<15, 0>>, <<15, 6>>}

\* texts of the form "YYYY-MM-DD HH:MM"
MinuteTexts == {TextOf(d, c[1], c[2]) : d \in ArgDates, c \in ArgClocks}

\* texts of the form "YYYY-MM-DD HH:MM:SS"
WithSeconds(text) == text \o <<":", "0", "0">>

SecondTexts == {WithSeconds(t) : t \in MinuteTexts}

\* the date part and the time part of "2019-01-02 09:30"
DatePart == <<"2", "0", "1", "9", "-", "0", "1", "-", "0", "2">>

TimePart == <<"0", "9", ":", "3", "0">>

\* texts of another shape: no time part; no colon; three colon fields; three
\* parts; an empty text; white space before or after
MisshapenTexts ==
  { DatePart,
    DatePart \o <<" ">>,
    DatePart \o <<" ", "0", "9", "3", "0">>,
    DatePart \o <<" ">> \o TimePart \o <<":", "1", "5">>,
    DatePart \o <<" ">> \o TimePart \o <<" ", "x">>,
    TimePart,
    <<>>,
    <<" ">> \o DatePart \o <<" ">> \o TimePart,
    DatePart \o <<" ">> \o TimePart \o <<" ">> }

\* texts of the right shape whose fields name no date and time: month 13, day
\* 30 of February, day 0, year 0, a year of two digits, hour 24, minute 60, a
\* letter in a field, an empty field, a field of three digits
UnrealTexts ==
  { <<"2", "0", "1", "9", "-", "1", "3", "-", "0", "2", " ">> \o TimePart,
    <<"2", "0", "1", "9", "-", "0", "2", "-", "3", "0", " ">> \o TimePart,
    <<"2", "0", "1", "9", "-", "0", "1", "-", "0", "0", " ">> \o TimePart,
    <<"0", "0", "0", "0", "-", "0", "1", "-", "0", "2", " ">> \o TimePart,
    <<"1", "9", "-", "0", "1", "-", "0", "2", " ">> \o TimePart,
    <<"2", "0", "1", "9", "/", "0", "1", "/", "0", "2", " ">> \o TimePart,
    DatePart \o <<" ", "2", "4", ":", "0", "0">>,
    DatePart \o <<" ", "0", "9", ":", "6", "0">>,
    DatePart \o <<" ", "0", "9", ":", "x", "0">>,
    DatePart \o <<" ", "0", "9", ":">>,
    DatePart \o <<" ", ":", "3", "0">>,
    DatePart \o <<" ", "0", "0", "9", ":", "3", "0">> }

\* texts strptime takes although they are not zero padded or hold more white
\* space: "2019-1-2 9:30", "2019-01-02  09:30", "2019-01-02<TAB>09:30"
LooseTexts ==
  { <<"2", "0", "1", "9", "-", "1", "-", "2", " ", "9", ":", "3", "0">>,
    DatePart \o <<" ", " ">> \o TimePart,
    DatePart \o <<"\t">> \o TimePart }

\* malformed texts whose date part names a Saturday and whose time part names
\* no time or a time outside trading hours: "2019-01-05 25:00", "2019-01-05",
\* "2019-01-05 12:00 x", "2019-01-05 12"
SaturdayPart == <<"2", "0", "1", "9", "-", "0", "1", "-", "0", "5">>

MalformedSaturdayTexts ==
  { SaturdayPart \o <<" ", "2", "5", ":", "0", "0">>,
    SaturdayPart,
    SaturdayPart \o <<" ", "1", "2", ":", "0", "0", " ", "x">>,
    SaturdayPart \o <<" ", "1", "2">> }

\* every text a caller of SpecTexts hands to get_time_step
TextArgs ==
  MinuteTexts \cup SecondTexts \cup MisshapenTexts \cup UnrealTexts \cup LooseTexts
    \cup MalformedSaturdayTexts

\* the texts a caller of Spec hands to get_time_step: a step of a trading day,
\* the same with seconds, a text without a time part, a holiday, a Saturday, a
\* time outside trading hours
TimeArgs ==
  { TextOf(base_date, 9, 30),
    WithSeconds(TextOf(base_date, 9, 30)),
    DatePart,
    TextOf(Date(2019, 1, 1), 9, 30),
    TextOf(Date(2019, 1, 5), 12, 0),
    TextOf(Date(2019, 1, 4), 12, 0) }

\* the text the last get_accurate_time call returned, which a caller may hand
\* to get_time_step
Returned ==
  IF last.op = "get_accurate_time" /\ last.ret.kind = "ok" THEN {last.ret.value} ELSE {}

Next ==
  \/ \E time_step \in StepArgs : GetAccurateTime(time_step)
  \/ \E time_input \in TimeArgs \cup Returned : GetTimeStep(time_input)
  \/ ClearCache
  \/ GetCacheStats

Spec == Init /\ [][Next]_vars

(***************************************************************************)
(* SpecSteps: a caller that asks for every step.  It first warms the cache  *)
(* with some of the WarmSteps, up to a full cache, and then probes one      *)
(* other step at a time: a miss, then hits, then the text handed back to    *)
(* get_time_step.                                                           *)
(***************************************************************************)
\* every supported step, every negative step that indexes the calendar from
\* its end, two steps past either end, and two steps further out
AllSteps ==
  ((0 - NumSteps - 2) .. (NumSteps + 1)) \cup {NumSteps + steps_per_day, 2 * NumSteps}

WarmSteps == {(i * 51) % NumSteps : i \in 0..(CacheCap - 1)}

Probes(time_step) ==
  \/ DOMAIN result_cache \subseteq WarmSteps
  \/ time_step \in DOMAIN result_cache

NextSteps ==
  \/ \E time_step \in AllSteps : Probes(time_step) /\ GetAccurateTime(time_step)
  \/ \E time_input \in Returned : GetTimeStep(time_input)

SpecSteps == Init /\ [][NextSteps]_vars

(***************************************************************************)
(* SpecTexts: a caller that hands every text of TextArgs to get_time_step.  *)
(***************************************************************************)
NextTexts == \E time_input \in TextArgs : GetTimeStep(time_input)

SpecTexts == Init /\ [][NextTexts]_vars

(***************************************************************************)
(* SpecClock: a caller that walks the clock.  Its first call hands          *)
(* get_time_step any minute of any of the ClockDates; each later call hands *)
(* it the next minute of the same date.                                     *)
(***************************************************************************)
\* a Monday before the horizon, the holiday before it, four days of the
\* horizon (a Wednesday, a Friday, a Saturday, a Sunday), the day after the
\* horizon, and a Monday two years on
ClockDates ==
  {Date(2018, 12, 31), Date(2019, 1, 1), base_date, Date(2019, 1, 4),
   Date(2019, 1, 5), Date(2019, 1, 6), AddDays(end_date, 1), Date(2021, 1, 4)}

ClockTexts == {TextOf(d, h, m) : d \in ClockDates, h \in 0..23, m \in 0..59}

\* the text of the minute after the one a text of ClockTexts names
NextMinute(text) ==
  LET t == Strptime(text).time
      minute == (t.hour * 60 + t.minute + 1) % (24 * 60)
  IN TextOf(Date(t.year, t.month, t.day), minute \div 60, minute % 60)

ClockArgs ==
  IF last.op = "init" THEN ClockTexts ELSE {NextMinute(last.arg)}

NextClock == \E time_input \in ClockArgs : GetTimeStep(time_input)

SpecClock == Init /\ [][NextClock]_vars

(***************************************************************************)
(* SpecCalendar: the service constructed over any holiday set.  The        *)
(* holidays package gives the holidays of 2019 and 2020; the horizon of the *)
(* model ends before the first of them, so the constructor is also run with *)
(* holidays that fall on days of the horizon.  After construction a caller  *)
(* asks for the first and the last step, for 09:30 of every day of the      *)
(* horizon and for the statistics, and clears the cache.                    *)
(***************************************************************************)
\* the dates the loop of _precompute_trading_days visits
Horizon == {AddDays(base_date, i) : i \in 0..(HorizonDays - 1)}

HolidayChoices == {ChinaHolidays \cup extra : extra \in SUBSET Horizon}

InitCalendar ==
  /\ china_holidays \in HolidayChoices
  /\ trading_days = PrecomputeTradingDays(china_holidays)
  /\ result_cache = EmptyCache
  /\ last = [op |-> "init", arg |-> None, ret |-> Ok(None)]
  /\ pre_cache = EmptyCache
  /\ threads = [t \in Threads |-> Idle]
  /\ db = Connect(Unconnected(TRUE))

NextCalendar ==
  \/ \E time_step \in {0, NumSteps - 1} : GetAccurateTime(time_step)
  \/ \E date \in Horizon : GetTimeStep(TextOf(date, 9, 30))
  \/ ClearCache
  \/ GetCacheStats

SpecCalendar == InitCalendar /\ [][NextCalendar]_vars

(***************************************************************************)
(* SpecRoutes: a client of the two endpoints, posting JSON bodies.          *)
(***************************************************************************)
\* the object {}
EmptyObject == JObject([k \in {} |-> JNull])

\* the values a body holds under "time_step": null, integers (negative, the
\* first steps, the last supported step, the first unsupported one), true and
\* false, 1.0 and 1.5, "1", [] and {}
StepValues ==
  << JNull, JInt(-1), JInt(0), JInt(1), JInt(NumSteps - 1), JInt(NumSteps),
     JBool(TRUE), JBool(FALSE), JFloat("1.0"), JFloat("1.5"), JStr(<<"1">>),
     JList(<<>>), EmptyObject >>

\* the bodies posted to /api/times: objects with a time_step, an object
\* without one, and bodies that are no object
TimesBodies ==
  [i \in 1..Len(StepValues) |-> Field("time_step", StepValues[i])]
    \o <<EmptyObject, Field("time", JInt(1)), JNull, JList(<<>>)>>

\* texts of a trading day and a time in trading hours
GoodTexts ==
  {TextOf(base_date, 9, 30), TextOf(Date(2019, 1, 4), 15, 0), TextOf(base_date, 11, 25)}

\* texts that are no "YYYY-MM-DD HH:MM": no time part, month 13, empty, "1"
UnparseableTexts ==
  { DatePart,
    <<"2", "0", "1", "9", "-", "1", "3", "-", "0", "2", " ">> \o TimePart,
    <<>>,
    <<"1">> }

\* texts of a holiday, a Saturday and the day after the horizon
NonTradingTexts ==
  { TextOf(Date(2019, 1, 1), 9, 30),
    TextOf(Date(2019, 1, 5), 12, 0),
    TextOf(AddDays(end_date, 1), 9, 30) }

\* texts of a trading day and a time outside trading hours
OutsideTexts ==
  {TextOf(Date(2019, 1, 4), 12, 0), TextOf(base_date, 9, 0), TextOf(base_date, 15, 6)}

\* the texts a body holds under "time"
RouteTexts ==
  GoodTexts \cup UnparseableTexts \cup NonTradingTexts \cup OutsideTexts
    \cup {WithSeconds(TextOf(base_date, 9, 30))}

\* the values of another type a body holds under "time"
TimeValues == <<JNull, JInt(1), JBool(TRUE), JFloat("1.5"), JList(<<>>), EmptyObject>>

\* the bodies posted to /api/timestep that hold no text
TimestepBodies ==
  [i \in 1..Len(TimeValues) |-> Field("time", TimeValues[i])]
    \o <<EmptyObject, Field("time_step", JInt(1)), JNull, JList(<<>>)>>

NextRoutes ==
  \/ \E i \in 1..Len(TimesBodies) : PostTimes(TimesBodies[i])
  \/ \E i \in 1..Len(TimestepBodies) : PostTimestep(TimestepBodies[i])
  \/ \E text \in RouteTexts : PostTimestep(Field("time", JStr(text)))

SpecRoutes == Init /\ [][NextRoutes]_vars

(***************************************************************************)
(* SpecThreads: NumThreads threads call get_accurate_time and clear_cache   *)
(* at once.  Thread t asks for two steps of its own, so that the threads    *)
(* together ask for more steps than the cache holds, and for step 0, which  *)
(* all share; the first thread also asks for the first unsupported step.    *)
(***************************************************************************)
ThreadSteps(t) ==
  {0, (51 * (2 * t - 1)) % NumSteps, (51 * 2 * t) % NumSteps}
    \cup (IF t = 1 THEN {NumSteps} ELSE {})

NextThreads ==
  \E t \in Threads :
    \/ \E time_step \in ThreadSteps(t) : ThreadCall(t, time_step)
    \/ ThreadTest(t)
    \/ ThreadRead(t)
    \/ ThreadCompute(t)
    \/ ThreadSize(t)
    \/ ThreadStore(t)
    \/ ThreadReturn(t)
    \/ ThreadClear(t)

SpecThreads == Init /\ [][NextThreads]_vars

\* SpecWriters: the threads call get_accurate_time at once and no thread
\* clears the cache
NextWriters ==
  \E t \in Threads :
    \/ \E time_step \in ThreadSteps(t) : ThreadCall(t, time_step)
    \/ ThreadTest(t)
    \/ ThreadRead(t)
    \/ ThreadCompute(t)
    \/ ThreadSize(t)
    \/ ThreadStore(t)
    \/ ThreadReturn(t)

SpecWriters == Init /\ [][NextWriters]_vars

(***************************************************************************)
(* SpecDatabase: the DatabaseManager constructed with the server reachable  *)
(* or not, a server that goes away and comes back, and a client of the      *)
(* three queries.                                                           *)
(***************************************************************************)
InitDatabase ==
  /\ china_holidays = ChinaHolidays
  /\ trading_days = PrecomputeTradingDays(ChinaHolidays)
  /\ result_cache = EmptyCache
  /\ last = [op |-> "init", arg |-> None, ret |-> Ok(None)]
  /\ pre_cache = EmptyCache
  /\ threads = [t \in Threads |-> Idle]
  /\ \E reachable \in BOOLEAN : db = Connect(Unconnected(reachable))

\* the codes a client asks for: two listed stocks, a stock with coordinates
\* that is not listed, a stock without coordinates
StockCodes ==
  { <<"0", "0", "0", "0", "0", "1">>, <<"0", "0", "0", "0", "0", "2">>,
    <<"6", "0", "0", "0", "0", "0">>, <<"9", "9", "9", "9", "9", "9">> }

\* the lists of codes a client asks coordinates for
CodeLists ==
  {<<>>} \cup {<<c>> : c \in StockCodes}
    \cup {<<<<"0", "0", "0", "0", "0", "1">>, c>> : c \in StockCodes}

NextDatabase ==
  \/ GetAvailableStocks
  \/ \E stock_code \in StockCodes : GetStockInfo(stock_code)
  \/ \E stock_codes \in CodeLists, time_step \in 0..1 : GetCoordinates(stock_codes, time_step)
  \/ CloseDatabase
  \/ ServerDown
  \/ ServerUp

SpecDatabase == InitDatabase /\ [][NextDatabase]_vars

(***************************************************************************)
(* The claims                                                              *)
(***************************************************************************)
CacheSize == Cardinality(DOMAIN result_cache)

\* last is a get_accurate_time call for a supported step: 0 <= step and
\* step div 50 < len(trading_days)
ForwardInRange ==
  /\ last.op = "get_accurate_time"
  /\ last.arg >= 0
  /\ last.arg \div 50 < Len(trading_days)

\* C1: round trip.  For every step 0 <= step < len(trading_days) * 50, the
\* text get_accurate_time returns for the step, handed to get_time_step, gives
\* exactly that step, whatever the cache holds: when get_time_step has been
\* called with a text, its result is the step of every supported step whose
\* conversion is that text.
C1_RoundTrip ==
  last.op = "get_time_step" =>
    \A step \in 0..(NumSteps - 1) :
      AccurateTimeCall(result_cache, trading_days, step).ret = Ok(last.arg)
        => last.ret = Ok(step)

\* C1 witness: the text of step 24 of the second day, which missed a full
\* cache, has been handed back and gave the step.
C1_Witness ==
  /\ last.op = "get_time_step"
  /\ last.ret.kind = "ok"
  /\ last.ret.value = 50 + 24
  /\ ComputeAccurateTime(trading_days, 50 + 24) = Ok(last.arg)
  /\ CacheSize = CacheCap
  /\ last.ret.value \notin DOMAIN result_cache

\* the minute of the day the schedule gives a step of the day
ScheduleMinute(slot) ==
  IF slot = 0 THEN 9 * 60 + 15
  ELSE IF slot <= 24 THEN 9 * 60 + 30 + (slot - 1) * 5
  ELSE IF slot <= 48 THEN 13 * 60 + (slot - 25) * 5
  ELSE 15 * 60

C3_OutOfRange ==
  last.op = "get_accurate_time" =>
    /\ last.arg \div 50 >= Len(trading_days) =>
         last.ret = Raise("OutOfRange", Len(trading_days) * 50 - 1)
    /\ (Len(trading_days) > 0 /\ last.arg = Len(trading_days) * 50 - 1) =>
         last.ret.kind = "ok"

\* C3 witness: the first step past the calendar has been refused.
C3_Witness ==
  /\ last.op = "get_accurate_time"
  /\ last.arg = Len(trading_days) * 50
  /\ last.ret.kind = "OutOfRange"

\* C4: totality in range.  For every step >= 0 with step div 50 <
\* len(trading_days), get_accurate_time returns a text and raises nothing,
\* whether the cache is empty, partly filled or full.
C4_TotalInRange == ForwardInRange => last.ret.kind = "ok"

\* C4 witness: the last supported step has been converted on a miss of a full
\* cache.
C4_Witness ==
  /\ ForwardInRange
  /\ last.arg = Len(trading_days) * 50 - 1
  /\ last.ret.kind = "ok"
  /\ Cardinality(DOMAIN pre_cache) = CacheCap
  /\ last.arg \notin DOMAIN pre_cache

\* C5: cache transparency.  After any sequence of calls every cache entry
\* k -> v holds the text the conversion without the cache gives for k, and a
\* get_accurate_time call, hit or miss, returns what that conversion returns.
C5_CacheTransparent ==
  /\ \A k \in DOMAIN result_cache :
       Ok(result_cache[k]) = ComputeAccurateTime(trading_days, k)
  /\ last.op = "get_accurate_time" =>
       last.ret = ComputeAccurateTime(trading_days, last.arg)

\* C5 witness: a call for a step of the second day has hit a full cache that
\* also holds a step of the first day.
C5_Witness ==
  /\ last.op = "get_accurate_time"
  /\ last.arg = 50
  /\ last.arg \in DOMAIN pre_cache
  /\ 0 \in DOMAIN pre_cache
  /\ Cardinality(DOMAIN pre_cache) = CacheCap
  /\ last.ret = Ok(pre_cache[last.arg])

\* last is a get_accurate_time call for a supported step that was not an entry
\* of the full cache it found
MissOfFullCache ==
  /\ ForwardInRange
  /\ Cardinality(DOMAIN pre_cache) = CacheCap
  /\ last.arg \notin DOMAIN pre_cache

\* C6: cache cap.  The cache never holds more entries than the cap, and a
\* get_accurate_time call for a supported step that is not an entry of a full
\* cache returns the right text without an error, stores nothing and evicts
\* nothing.
C6_CacheCap ==
  /\ CacheSize <= CacheCap
  /\ MissOfFullCache =>
       /\ last.ret.kind = "ok"
       /\ last.ret = ComputeAccurateTime(trading_days, last.arg)
       /\ result_cache = pre_cache

\* C6 witness: a full cache has missed a supported step and returned its text.
C6_Witness ==
  /\ MissOfFullCache
  /\ last.ret.kind = "ok"
  /\ CacheSize = CacheCap

\* C7: clear_cache.  Called in any state it leaves the cache empty and raises
\* nothing; every get_accurate_time call returns after the clear what it
\* would have returned before it; and the empty cache takes new entries again.
C7_ClearCache ==
  /\ last.op = "clear_cache" =>
       /\ CacheSize = 0
       /\ result_cache = EmptyCache
       /\ last.ret = Ok(None)
       /\ \A time_step \in AllSteps :
            AccurateTimeCall(result_cache, trading_days, time_step).ret
              = AccurateTimeCall(pre_cache, trading_days, time_step).ret
  /\ ( /\ last.op = "get_accurate_time"
       /\ pre_cache = EmptyCache
       /\ last.ret.kind = "ok" )
     => /\ last.arg \in DOMAIN result_cache
        /\ result_cache[last.arg] = last.ret.value

\* C7 witness: clear_cache has run on a full cache and left an empty one.
C7_Witness ==
  /\ last.op = "clear_cache"
  /\ last.ret = Ok(None)
  /\ Cardinality(DOMAIN pre_cache) = CacheCap
  /\ result_cache = EmptyCache

\* C8: get_cache_stats.  In every state it returns the number of cache
\* entries as cache_size, len(trading_days) as trading_days_count and
\* len(trading_days)*50 - 1 as max_supported_time_step, and it leaves the cache
\* as it found it and the calendar as it was built.
C8_CacheStats ==
  last.op = "get_cache_stats" =>
    /\ last.ret =
         Ok([cache_size |-> Cardinality(DOMAIN pre_cache),
             trading_days_count |-> Len(trading_days),
             max_supported_time_step |-> Len(trading_days) * 50 - 1])
    /\ last.ret.value.cache_size = CacheSize
    /\ result_cache = pre_cache
    /\ trading_days = PrecomputeTradingDays(ChinaHolidays)

\* C8 witness: the statistics of a full cache have been returned.
C8_Witness ==
  /\ last.op = "get_cache_stats"
  /\ last.ret.kind = "ok"
  /\ last.ret.value.cache_size = CacheCap
  /\ CacheSize = CacheCap

WithoutSeconds(text) == SubSeq(text, 1, Len(text) - 3)

\* C10: both documented forms are taken.  A text "YYYY-MM-DD HH:MM:SS" of a
\* trading day inside trading hours is accepted and gives the step its
\* "YYYY-MM-DD HH:MM" text gives.
C10_SecondsForm ==
  ( /\ last.op = "get_time_step"
    /\ last.arg \in SecondTexts
    /\ TimeStepCall(trading_days, WithoutSeconds(last.arg)).kind = "ok" )
  => last.ret = TimeStepCall(trading_days, WithoutSeconds(last.arg))

(***************************************************************************)
(* The inverse conversion, minute by minute (SpecClock)                    *)
(***************************************************************************)
\* the number the n characters of a text from position i spell
NumberAt(text, i, n) == ToInt(SubSeq(text, i, i + n - 1))

\* last is a get_time_step call for a text "YYYY-MM-DD HH:MM"
AskedClock ==
  /\ last.op = "get_time_step"
  /\ Len(last.arg) = 16
  /\ last.arg[5] = "-" /\ last.arg[8] = "-" /\ last.arg[11] = " "
  /\ last.arg[14] = ":"

\* the date the text names, and its minute of the day
AskedDate ==
  Date(NumberAt(last.arg, 1, 4), NumberAt(last.arg, 6, 2), NumberAt(last.arg, 9, 2))

AskedMinute == NumberAt(last.arg, 12, 2) * 60 + NumberAt(last.arg, 15, 2)

IsTradingDay(date) == \E i \in 1..Len(trading_days) : trading_days[i] = date

\* the index of a trading day in the calendar, from 0
DayIndex(date) == (CHOOSE i \in 1..Len(trading_days) : trading_days[i] = date) - 1

AskedOnTradingDay == AskedClock /\ IsTradingDay(AskedDate)

\* the minute of the day of a clock time
Clock(hour, minute) == hour * 60 + minute

\* the minute lies between two clock times, both included
Within(minute, from, to) == from <= minute /\ minute <= to

\* round(minutes / 5) for a number of minutes that is not half way
Nearest5(minutes) ==
  CHOOSE k \in 0..(minutes \div 5 + 1) : 5 * k - 2 <= minutes /\ minutes <= 5 * k + 2

\* C11: NotTradingDay.  A text "YYYY-MM-DD HH:MM" whose date is not in
\* trading_days (a weekend, a holiday, a date outside the horizon) makes
\* get_time_step raise the NotTradingDay error, whatever its time of day.
C11_NotTradingDay ==
  (AskedClock /\ ~IsTradingDay(AskedDate))
    => last.ret = Raise("NotTradingDay", AskedDate)

\* C11 witnesses: the holiday 2019-01-01 at 09:30, a Saturday at 15:00 and the
\* Monday after the horizon at 03:07 have been refused.
C11_Witness ==
  /\ AskedClock
  /\ last.ret.kind = "NotTradingDay"
  /\ \/ AskedDate = Date(2019, 1, 1) /\ AskedMinute = Clock(9, 30)
     \/ AskedDate = Date(2019, 1, 5) /\ AskedMinute = Clock(15, 0)
     \/ AskedDate = AddDays(end_date, 1) /\ AskedMinute = Clock(3, 7)

\* the three windows of the trading day
InTradingHours(minute) ==
  \/ Within(minute, Clock(9, 10), Clock(9, 20))
  \/ Within(minute, Clock(9, 30), Clock(11, 30))
  \/ Within(minute, Clock(13, 0), Clock(15, 5))

\* C12: OutsideTradingHours.  For a text "YYYY-MM-DD HH:MM" on a trading day,
\* get_time_step returns a step iff the time of day lies in 09:10-09:20,
\* 09:30-11:30 or 13:00-15:05, bounds included; for every other time it raises
\* the OutsideTradingHours error.
C12_OutsideTradingHours ==
  AskedOnTradingDay =>
    IF InTradingHours(AskedMinute)
    THEN last.ret.kind = "ok"
    ELSE last.ret = Raise("OutsideTradingHours", last.arg)

\* C12 witness: 11:31 on the first trading day has been refused.
C12_Witness ==
  /\ AskedOnTradingDay
  /\ AskedDate = base_date
  /\ AskedMinute = Clock(11, 31)
  /\ last.ret.kind = "OutsideTradingHours"

\* C13: morning window.  For every time from 09:30 through 11:30 on a trading
\* day get_time_step returns day_index * 50 + slot, where
\* slot = 1 + round(minutes since 09:30 / 5), and the slot lies in 1..24.
C13_MorningWindow ==
  (AskedOnTradingDay /\ Within(AskedMinute, Clock(9, 30), Clock(11, 30))) =>
    LET slot == 1 + Nearest5(AskedMinute - Clock(9, 30))
    IN /\ last.ret = Ok(DayIndex(AskedDate) * 50 + slot)
       /\ slot \in 1..24

C15_AfternoonWindow ==
  (AskedOnTradingDay /\ Within(AskedMinute, Clock(13, 0), Clock(14, 54))) =>
    LET slot == 25 + Nearest5(AskedMinute - Clock(13, 0))
    IN /\ last.ret = Ok(DayIndex(AskedDate) * 50 + slot)
       /\ slot \in 25..48

\* C15 witness: 14:53 on the first trading day has given step 48.
C15_Witness ==
  /\ AskedOnTradingDay
  /\ AskedDate = base_date
  /\ AskedMinute = Clock(14, 53)
  /\ last.ret = Ok(48)

\* C16: pre-open window.  For every time from 09:10 through 09:20 on a trading
\* day get_time_step returns day_index * 50, slot 0.
C16_PreOpen ==
  (AskedOnTradingDay /\ Within(AskedMinute, Clock(9, 10), Clock(9, 20)))
    => last.ret = Ok(DayIndex(AskedDate) * 50)

\* C16 witness: 09:10 on the third trading day has given step 100.
C16_Witness ==
  /\ AskedOnTradingDay
  /\ AskedDate = Date(2019, 1, 4)
  /\ AskedMinute = Clock(9, 10)
  /\ last.ret = Ok(100)

(***************************************************************************)
(* The calendar (SpecCalendar)                                             *)
(***************************************************************************)
\* the days of the horizon, counted from base_date, that are open: day i is a
\* Monday to Friday (2019-01-02 is a Wednesday) and not a holiday
OpenDays ==
  {i \in 0..(HorizonDays - 1) :
     /\ (2 + i) % 7 < 5
     /\ AddDays(base_date, i) \notin china_holidays}

\* a date is earlier than another
Earlier(a, b) ==
  \/ a.year < b.year
  \/ a.year = b.year /\ a.month < b.month
  \/ a.year = b.year /\ a.month = b.month /\ a.day < b.day

\* C17: calendar content.  After construction trading_days holds exactly the
\* dates of the horizon that are a Monday to Friday and not in the holiday
\* set, each once and in strictly increasing order, so that index 0 is the
\* earliest open day of the horizon: 2019-01-02 with the configured holidays.
C17_CalendarContent ==
  /\ {trading_days[i] : i \in 1..Len(trading_days)}
       = {AddDays(base_date, i) : i \in OpenDays}
  /\ Len(trading_days) = Cardinality(OpenDays)
  /\ \A i \in 1..(Len(trading_days) - 1) : Earlier(trading_days[i], trading_days[i + 1])
  /\ \A i \in OpenDays :
       (\A j \in OpenDays : i <= j) => trading_days[1] = AddDays(base_date, i)
  /\ china_holidays = ChinaHolidays => trading_days[1] = Date(2019, 1, 2)

\* C17 witness: constructed with 2019-01-03 a holiday, the calendar is
\* 2019-01-02, 2019-01-04: the holiday and the weekend after it are left out,
\* and calls have been served from it.
C17_Witness ==
  /\ Date(2019, 1, 3) \in china_holidays
  /\ Len(trading_days) >= 2
  /\ trading_days[1] = Date(2019, 1, 2)
  /\ trading_days[2] = Date(2019, 1, 4)
  /\ \A i \in 1..Len(trading_days) : trading_days[i] \notin {Date(2019, 1, 5), Date(2019, 1, 6)}
  /\ last.op = "get_time_step"
  /\ last.ret = Ok(51)

(***************************************************************************)
(* The endpoints (SpecRoutes)                                              *)
(***************************************************************************)
\* a response that carries an error and nothing else
IsErrorResponse(response) ==
  /\ response.status >= 400
  /\ DOMAIN response.body = {"error", "message"}

\* the body posted to /api/times holds a non-negative JSON integer within the
\* horizon under "time_step"
ValidStepBody(data) ==
  /\ data.type = "object"
  /\ "time_step" \in DOMAIN data.value
  /\ data.value["time_step"].type = "int"
  /\ data.value["time_step"].value >= 0
  /\ data.value["time_step"].value < NumSteps

\* C18: forward endpoint validation.  POST /api/times answers with an error,
\* and no accurate_time, whenever time_step is missing, is a JSON value of a
\* type other than integer, is negative or exceeds the horizon; it answers
\* with accurate_time only for a non-negative integer within the horizon.
C18_ForwardValidation ==
  last.op = "POST /api/times" =>
    /\ ~ValidStepBody(last.arg) => IsErrorResponse(last.ret)
    /\ "accurate_time" \in DOMAIN last.ret.body => ValidStepBody(last.arg)

\* the text posted to /api/timestep under "time", when there is one
PostedText ==
  IF /\ last.arg.type = "object"
     /\ "time" \in DOMAIN last.arg.value
     /\ last.arg.value["time"].type = "str"
  THEN {last.arg.value["time"].value}
  ELSE {}

\* the messages of the four errors of the service, over the arguments of the
\* model
BadFormatMessages ==
  {ErrorText(text, Raise("BadFormat", text)) : text \in TextArgs \cup UnparseableTexts}

NotTradingDayMessages ==
  {ErrorText(TextOf(d, 9, 30), Raise("NotTradingDay", d)) : d \in ClockDates}

OutsideTradingHoursMessages ==
  {ErrorText(text, Raise("OutsideTradingHours", text)) : text \in TextArgs \cup OutsideTexts}

OutOfRangeMessages ==
  {ErrorText(step, Raise("OutOfRange", NumSteps - 1)) : step \in AllSteps}

\* C19: inverse endpoint errors.  POST /api/timestep answers with an error,
\* and no time_step, whenever time is missing, is not a string, is
\* unparseable, names a non-trading date or names a time outside trading
\* hours; the message is the one of the BadFormat, NotTradingDay or
\* OutsideTradingHours error of the service, and the messages of these errors
\* and of OutOfRange are pairwise distinct.
C19_InverseErrors ==
  /\ last.op = "POST /api/timestep" =>
       /\ PostedText = {} => IsErrorResponse(last.ret)
       /\ \A text \in PostedText :
            /\ text \in UnparseableTexts =>
                 /\ IsErrorResponse(last.ret)
                 /\ last.ret.body.message \in BadFormatMessages
            /\ text \in NonTradingTexts =>
                 /\ IsErrorResponse(last.ret)
                 /\ last.ret.body.message \in NotTradingDayMessages
            /\ text \in OutsideTexts =>
                 /\ IsErrorResponse(last.ret)
                 /\ last.ret.body.message \in OutsideTradingHoursMessages
  /\ BadFormatMessages \cap NotTradingDayMessages = {}
  /\ BadFormatMessages \cap OutsideTradingHoursMessages = {}
  /\ BadFormatMessages \cap OutOfRangeMessages = {}
  /\ NotTradingDayMessages \cap OutsideTradingHoursMessages = {}
  /\ NotTradingDayMessages \cap OutOfRangeMessages = {}
  /\ OutsideTradingHoursMessages \cap OutOfRangeMessages = {}

\* C19 witness: the Saturday 2019-01-05 12:00 has been posted and answered
\* with status 400 and the NotTradingDay message.
C19_Witness ==
  /\ last.op = "POST /api/timestep"
  /\ PostedText = {TextOf(Date(2019, 1, 5), 12, 0)}
  /\ last.ret.status = 400
  /\ last.ret.body.message \in NotTradingDayMessages
  /\ "time_step" \notin DOMAIN last.ret.body

(***************************************************************************)
(* Threads (SpecThreads)                                                   *)
(***************************************************************************)
\* the text of a supported step, by the schedule
ScheduleText(step) ==
  TextOf(trading_days[step \div 50 + 1],
         ScheduleMinute(step % 50) \div 60, ScheduleMinute(step % 50) % 60)

\* C20: clear_cache is safe under concurrency.  When clear_cache runs between
\* the statements of a get_accurate_time call of another thread, in
\* particular between its membership test and its read of the cached value,
\* the call does not fail and returns the correct timestamp: every finished
\* call for a supported step has returned the text of the step.
C20_ClearCacheSafe ==
  \A t \in Threads :
    ( /\ threads[t].pc = "done"
      /\ threads[t].time_step >= 0
      /\ threads[t].time_step < NumSteps )
    => threads[t].result = Ok(ScheduleText(threads[t].time_step))

\* C21: cache cap under concurrency.  With two or more get_accurate_time
\* calls for distinct uncached steps interleaved statement by statement, the
\* size test and the insert being separate steps, the number of cache entries
\* never exceeds the cap.
C21_CacheCapThreads == Cardinality(DOMAIN result_cache) <= CacheCap

\* a finished call of a thread gave what the computation without a cache gives
\* for its step: the text of the schedule, or the error of an unsupported step
ReturnedUncached(t) ==
  IF threads[t].time_step >= 0 /\ threads[t].time_step < NumSteps
  THEN threads[t].result = Ok(ScheduleText(threads[t].time_step))
  ELSE threads[t].result = Raise("OutOfRange", NumSteps - 1)

\* C22: concurrent writers are harmless.  For any interleaving of concurrent
\* get_accurate_time calls, of the same or of different steps and without a
\* clear, every call returns the value the uncached computation gives for its
\* step, and a key written by several callers holds that same value.
C22_ConcurrentWriters ==
  /\ \A t \in Threads : threads[t].pc = "done" => ReturnedUncached(t)
  /\ \A k \in DOMAIN result_cache : result_cache[k] = ScheduleText(k)

\* C22 witness: two threads asked for step 0 at once, both missed, both wrote
\* the key (the cache was never full) and are about to return.
C22_Witness ==
  /\ threads[1].pc = "return" /\ threads[1].time_step = 0
  /\ threads[2].pc = "return" /\ threads[2].time_step = 0
  /\ DOMAIN result_cache = {0}
  /\ result_cache[0] = ScheduleText(0)

(***************************************************************************)
(* Frame conditions (Spec, SpecCalendar)                                   *)
(***************************************************************************)
\* C23: only valid steps are served and cached.  After any sequence of
\* get_accurate_time calls with integer arguments, negative ones included,
\* every cache key k satisfies 0 <= k < len(trading_days) * 50, and
\* get_accurate_time never returns a timestamp for a negative step.
C23_OnlyValidSteps ==
  /\ \A k \in DOMAIN result_cache : 0 <= k /\ k < NumSteps
  /\ (last.op = "get_accurate_time" /\ last.arg < 0) => last.ret.kind # "ok"

\* last is a get_accurate_time or get_time_step call that raised
FailedCall ==
  /\ last.op \in {"get_accurate_time", "get_time_step"}
  /\ last.ret.kind # "ok"

\* C25: failures are scoped to the call.  A get_accurate_time or get_time_step
\* call that fails leaves the cache and the calendar exactly as they were, so
\* every later call returns what it would have returned had the failing call
\* not happened.
C25_FailuresScoped ==
  FailedCall =>
    /\ result_cache = pre_cache
    /\ trading_days = PrecomputeTradingDays(ChinaHolidays)
    /\ \A time_step \in StepArgs :
         AccurateTimeCall(result_cache, trading_days, time_step)
           = AccurateTimeCall(pre_cache, trading_days, time_step)

\* C25 witness: a call for the first unsupported step has failed on a cache
\* that holds two entries and has room for a third.
C25_Witness ==
  /\ last.op = "get_accurate_time"
  /\ last.arg = NumSteps
  /\ last.ret.kind = "OutOfRange"
  /\ Cardinality(DOMAIN pre_cache) = CacheCap - 1
  /\ CacheSize = CacheCap - 1

\* C26: calendar immutability.  After construction no sequence of
\* get_accurate_time, get_time_step, clear_cache and get_cache_stats calls,
\* successful or failing, changes trading_days: it stays the list the
\* constructor built from the holiday set, and the holiday set stays.
C26_CalendarImmutable ==
  /\ trading_days = PrecomputeTradingDays(china_holidays)
  /\ china_holidays \in HolidayChoices

\* C26 witness: after a successful get_accurate_time call and a failing
\* get_time_step call, the calendar built with 2019-01-04 a holiday still
\* starts 2019-01-02, 2019-01-03 and holds no 2019-01-04.
C26_Witness ==
  /\ Date(2019, 1, 4) \in china_holidays
  /\ Len(trading_days) >= 2
  /\ trading_days[1] = Date(2019, 1, 2)
  /\ trading_days[2] = Date(2019, 1, 3)
  /\ \A i \in 1..Len(trading_days) : trading_days[i] # Date(2019, 1, 4)
  /\ last.op = "get_time_step"
  /\ last.ret.kind = "NotTradingDay"
  /\ CacheSize = 1
  /\ Cardinality(DOMAIN pre_cache) = 1

\* last is a successful get_accurate_time call that missed a cache with room
AddingCall ==
  /\ last.op = "get_accurate_time"
  /\ last.ret.kind = "ok"
  /\ last.arg \notin DOMAIN pre_cache
  /\ Cardinality(DOMAIN pre_cache) < CacheCap

\* C27: the cache changes in two ways only.  A successful get_accurate_time
\* miss below the cap adds exactly the entry step -> result; clear_cache
\* empties the cache; hits, failing calls, misses of a full cache,
\* get_time_step and get_cache_stats leave it unchanged; no entry is removed
\* or given another value except by clear_cache.
C27_CacheChanges ==
  /\ AddingCall =>
       /\ DOMAIN result_cache = DOMAIN pre_cache \cup {last.arg}
       /\ result_cache[last.arg] = last.ret.value
  /\ last.op = "clear_cache" => result_cache = EmptyCache
  /\ (~AddingCall /\ last.op # "clear_cache") => result_cache = pre_cache
  /\ last.op # "clear_cache" =>
       \A k \in DOMAIN pre_cache :
         k \in DOMAIN result_cache /\ result_cache[k] = pre_cache[k]

\* C27 witness: a miss of a cache with two entries and room for more has added
\* its entry and kept the two.
C27_Witness ==
  /\ AddingCall
  /\ Cardinality(DOMAIN pre_cache) = 2
  /\ CacheSize = 3
  /\ result_cache[last.arg] = last.ret.value

\* C24: error precedence in get_time_step.  The format check comes first, the
\* trading-day check second and the trading-hours check last: a malformed text
\* always fails BadFormat, also when its date part names a non-trading day,
\* and a well-formed text with a non-trading date fails NotTradingDay, also
\* when its time lies outside trading hours.
C24_ErrorPrecedence ==
  last.op = "get_time_step" =>
    /\ last.arg \in MisshapenTexts \cup UnrealTexts \cup MalformedSaturdayTexts
         => last.ret = Raise("BadFormat", last.arg)
    /\ (last.arg \in MinuteTexts /\ ~IsTradingDay(AskedDate))
         => last.ret = Raise("NotTradingDay", AskedDate)
    /\ (last.arg \in MinuteTexts /\ IsTradingDay(AskedDate)
          /\ ~InTradingHours(AskedMinute))
         => last.ret = Raise("OutsideTradingHours", last.arg)

\* C24 witness: "2019-01-05 12:00", a Saturday at a time outside trading hours,
\* has failed NotTradingDay.
C24_Witness ==
  /\ last.op = "get_time_step"
  /\ last.arg = TextOf(Date(2019, 1, 5), 12, 0)
  /\ ~InTradingHours(AskedMinute)
  /\ last.ret = Raise("NotTradingDay", Date(2019, 1, 5))

\* C29: every step get_time_step returns is valid.  Whenever get_time_step
\* returns r, 0 <= r < len(trading_days) * 50, r div 50 is the calendar index
\* of the input date, r mod 50 is in 0..49, and get_accurate_time(r) succeeds
\* with a timestamp on the date of the input.
C29_ReturnedStepValid ==
  (AskedClock /\ last.ret.kind = "ok") =>
    LET r == last.ret.value
        forward == AccurateTimeCall(result_cache, trading_days, r).ret
    IN /\ 0 <= r /\ r < NumSteps
       /\ IsTradingDay(AskedDate)
       /\ r \div 50 = DayIndex(AskedDate)
       /\ r % 50 \in 0..49
       /\ forward.kind = "ok"
       /\ SubSeq(forward.value, 1, 10) = SubSeq(last.arg, 1, 10)

\* C29 witness: 15:05 on 2019-01-04, the third trading day, has given step
\* 149, the last step of that day.
C29_Witness ==
  /\ AskedClock
  /\ AskedDate = Date(2019, 1, 4)
  /\ AskedMinute = Clock(15, 5)
  /\ last.ret = Ok(2 * 50 + 49)
  /\ AccurateTimeCall(result_cache, trading_days, 149).ret
       = Ok(TextOf(Date(2019, 1, 4), 15, 0))

\* a number that grows with the time a text "YYYY-MM-DD HH:MM" names
TextMinute(text) ==
  (((NumberAt(text, 1, 4) * 12 + NumberAt(text, 6, 2)) * 31
      + NumberAt(text, 9, 2)) * 24 + NumberAt(text, 12, 2)) * 60
    + NumberAt(text, 15, 2)

\* what get_accurate_time returns for a step on a cache: the entry of the
\* step, or what the computation gives
Returns(cache, days, time_step) ==
  IF time_step \in DOMAIN cache THEN Ok(cache[time_step])
  ELSE ComputeAccurateTime(days, time_step)

\* C30: the forward mapping is strictly increasing, hence injective.  For all
\* supported steps s1 < s2 the timestamp of s1 is strictly earlier than the
\* timestamp of s2, within a day and from one trading day to the next: when
\* get_accurate_time has returned the text of a supported step, the text of
\* every smaller supported step is earlier.
C30_ForwardIncreasing ==
  ForwardInRange =>
    /\ last.ret.kind = "ok"
    /\ LET later == TextMinute(last.ret.value)
       IN \A s1 \in 0..(last.arg - 1) :
            LET earlier == Returns(result_cache, trading_days, s1)
            IN /\ earlier.kind = "ok"
               /\ TextMinute(earlier.value) < later

\* C30 witness: step 50, the first step of the second trading day, has given
\* 2019-01-03 09:15, later than the 15:00 of step 49.
C30_Witness ==
  /\ ForwardInRange
  /\ last.arg = 50
  /\ last.ret = Ok(TextOf(Date(2019, 1, 3), 9, 15))
  /\ AccurateTimeCall(result_cache, trading_days, 49).ret
       = Ok(TextOf(Date(2019, 1, 2), 15, 0))

(***************************************************************************)
(* The database (SpecDatabase)                                             *)
(***************************************************************************)
\* what the last query returns when it is served
Served ==
  IF last.op = "get_available_stocks" THEN AvailableStocks
  ELSE IF last.op = "get_stock_info" THEN StockInfo(last.arg)
  ELSE Coordinates(last.arg[1], last.arg[2])

\* C28: reconnect on a lost connection.  When the connection has become closed
\* or was never established, and the server can be reached again, the next
\* query of UMAPCoordinateService (get_available_stocks, get_stock_info or
\* get_coordinates) re-establishes the connection through get_connection and
\* serves the query instead of reporting a connection failure.
C28_Reconnect ==
  ( /\ last.op \in {"get_available_stocks", "get_stock_info", "get_coordinates"}
    /\ last.found.reachable
    /\ last.found.connection \in {None, "closed"} )
  => /\ db.connection = "open"
     /\ last.ret = Served

====
